---- MODULE Spec2Model ----
(***************************************************************************)
(* The OSC codec of src/osc.rs: OscWriter (write, write_osc_string,        *)
(* write_osc_int, write_osc_float, write_osc_blob), OscReader (read,       *)
(* read_osc_string, read_osc_int, read_osc_float, read_osc_blob),          *)
(* get_type_tag and OscMessage (write_to, from_reader), over an            *)
(* in-memory sink (MemWriter) and an in-memory source (MemReader).         *)
(*                                                                         *)
(* A byte is a number in 0..255.  A ~str is the sequence of its UTF-8      *)
(* bytes.  An i32 is a number in -2^31..2^31-1.  An f32 is carried by its  *)
(* bit pattern, read as an i32 (write_be_f32 and read_be_f32 transmute).   *)
(***************************************************************************)
EXTENDS Integers, Sequences, FiniteSets

(***************************************************************************)
(* Bounds of the model.                                                    *)
(***************************************************************************)
MaxStrLen == 4
MaxBlobLen == 2
MaxWrites == 2
MaxArgs == 2

(***************************************************************************)
(* Characters of the source, as bytes.                                     *)
(***************************************************************************)
Comma == 44
TagS == 115
TagI == 105
TagF == 102
TagB == 98

I32Min == (-2147483647) - 1

(***************************************************************************)
(* The OscType enum.                                                       *)
(***************************************************************************)
OscString(s) == [kind |-> "OscString", val |-> s]
OscInt(i) == [kind |-> "OscInt", val |-> i]
OscFloat(bits) == [kind |-> "OscFloat", val |-> bits]
OscBlob(b) == [kind |-> "OscBlob", val |-> b]

OscMessage(address, arguments) == [address |-> address, arguments |-> arguments]

(***************************************************************************)
(* Sequences of bytes.                                                     *)
(***************************************************************************)
SeqsUpTo(S, n) == UNION {[1..k -> S] : k \in 0..n}

Zeros(n) == [i \in 1..n |-> 0]

(***************************************************************************)
(* Writer::write_be_i32 and Reader::read_be_i32: four bytes, big-endian,   *)
(* two's complement.  The arithmetic stays within 32 bits.                 *)
(***************************************************************************)
BE32(v) ==
  LET w == IF v < 0 THEN (v + 2147483647) + 1 ELSE v
      top == IF v < 0 THEN 128 ELSE 0
  IN  << top + (w \div 16777216), (w \div 65536) % 256, (w \div 256) % 256, w % 256 >>

FromBE32(b) ==
  LET low == ((b[1] % 128) * 16777216) + (b[2] * 65536) + (b[3] * 256) + b[4]
  IN  IF b[1] >= 128 THEN (low - 2147483647) - 1 ELSE low

(***************************************************************************)
(* The rounding of write_osc_string and read_osc_string:                   *)
(*   if len & 3 != 0 { len = (len|3) + 1; }                                *)
(***************************************************************************)
BitAnd3(n) == n % 4
BitOr3(n) == (n - (n % 4)) + 3

(* Variants: no rounding at all; rounding up even a multiple of 4. *)
PaddedLenNoRound(len) == len
PaddedLenAlways(len) == BitOr3(len) + 1
PaddedLen(len) == IF BitAnd3(len) # 0 THEN BitOr3(len) + 1 ELSE len

(***************************************************************************)
(* OscWriter: what each method appends to the sink.                        *)
(***************************************************************************)
WriteOscString(oscStr) ==
  LET len == PaddedLen(Len(oscStr) + 1)
      instr_len == Len(oscStr)
  IN  oscStr \o Zeros(len - instr_len)

(* Variant: the blob padded to a multiple of 4, as the OSC specification   *)
(* has it.                                                                 *)
WriteOscBlobPadded(blob) == BE32(Len(blob)) \o blob \o Zeros(PaddedLen(Len(blob)) - Len(blob))
WriteOscBlob(blob) == BE32(Len(blob)) \o blob

WriteOscInt(oscInt) == BE32(oscInt)

WriteOscFloat(oscFloat) == BE32(oscFloat)

OscWriterWrite(osc) ==
  CASE osc.kind = "OscString" -> WriteOscString(osc.val)
    [] osc.kind = "OscInt" -> WriteOscInt(osc.val)
    [] osc.kind = "OscFloat" -> WriteOscFloat(osc.val)
    [] osc.kind = "OscBlob" -> WriteOscBlob(osc.val)

(* Variant: the tags of int and float exchanged. *)
GetTypeTagSwapped(osc) ==
  CASE osc.kind = "OscString" -> TagS
    [] osc.kind = "OscInt" -> TagF
    [] osc.kind = "OscFloat" -> TagI
    [] osc.kind = "OscBlob" -> TagB
get_type_tag(osc) ==
  CASE osc.kind = "OscString" -> TagS
    [] osc.kind = "OscInt" -> TagI
    [] osc.kind = "OscFloat" -> TagF
    [] osc.kind = "OscBlob" -> TagB

(***************************************************************************)
(* OscMessage::write_to: the values it hands to OscWriter::write, in       *)
(* order: the address, the typetag string, each argument.                  *)
(***************************************************************************)
Typetags(arguments) == <<Comma>> \o [i \in 1..Len(arguments) |-> get_type_tag(arguments[i])]

(* Variant: the typetag string before the address. *)
WriteToCallsTagsFirst(m) ==
  << OscString(Typetags(m.arguments)), OscString(m.address) >> \o m.arguments
WriteToCalls(m) ==
  << OscString(m.address), OscString(Typetags(m.arguments)) >> \o m.arguments

(***************************************************************************)
(* Results.  A read ends with Ok(value) or Err(error); from_reader may     *)
(* also end in fail!(), which ends the task.  pos is the position of the   *)
(* source when the call ends.                                              *)
(***************************************************************************)
Ok(v, p) == [kind |-> "ok", val |-> v, pos |-> p]
Err(e, p) == [kind |-> "err", err |-> e, pos |-> p]
Fail(e, p) == [kind |-> "panic", err |-> e, pos |-> p]

(***************************************************************************)
(* str::from_utf8_owned returns Some exactly for well-formed UTF-8.        *)
(***************************************************************************)
IsCont(c) == c \in 128..191

RECURSIVE Utf8From(_, _)
Utf8From(b, i) ==
  IF i > Len(b) THEN TRUE
  ELSE LET c == b[i]
           n == Len(b)
       IN  CASE c < 128 -> Utf8From(b, i + 1)
             [] c \in 194..223 ->
                  /\ i + 1 <= n
                  /\ IsCont(b[i + 1])
                  /\ Utf8From(b, i + 2)
             [] c \in 224..239 ->
                  /\ i + 2 <= n
                  /\ b[i + 1] \in (IF c = 224 THEN 160..191 ELSE IF c = 237 THEN 128..159 ELSE 128..191)
                  /\ IsCont(b[i + 2])
                  /\ Utf8From(b, i + 3)
             [] c \in 240..244 ->
                  /\ i + 3 <= n
                  /\ b[i + 1] \in (IF c = 240 THEN 144..191 ELSE IF c = 244 THEN 128..143 ELSE 128..191)
                  /\ IsCont(b[i + 2])
                  /\ IsCont(b[i + 3])
                  /\ Utf8From(b, i + 4)
             [] OTHER -> FALSE

IsUtf8(b) == Utf8From(b, 1)

(***************************************************************************)
(* OscReader over a source buf read up to pos (bytes buf[1..pos] are       *)
(* consumed).                                                              *)
(***************************************************************************)
NulsFrom(buf, pos) == {i \in (pos + 1)..Len(buf) : buf[i] = 0}

FirstNul(buf, pos) == CHOOSE i \in NulsFrom(buf, pos) : \A j \in NulsFrom(buf, pos) : i <= j

(* Variant: the padding after the NUL left in the source. *)
ReadOscStringNoSkip(buf, pos) ==
  IF NulsFrom(buf, pos) = {} THEN Err("EndOfFile", Len(buf))
  ELSE LET nul == FirstNul(buf, pos)
           str_bytes == SubSeq(buf, pos + 1, nul - 1)
       IN  IF IsUtf8(str_bytes) THEN Ok(OscString(str_bytes), nul)
           ELSE Err("InvalidInput", nul)
ReadOscString(buf, pos) ==
  IF NulsFrom(buf, pos) = {} THEN Err("EndOfFile", Len(buf))
  ELSE LET nul == FirstNul(buf, pos)
           str_bytes == SubSeq(buf, pos + 1, nul - 1)
           len == PaddedLen(Len(str_bytes) + 1)
           end == nul + (len - (Len(str_bytes) + 1))
       IN  IF end > Len(buf) THEN Err("EndOfFile", Len(buf))
           ELSE IF IsUtf8(str_bytes) THEN Ok(OscString(str_bytes), end)
           ELSE Err("InvalidInput", end)

ReadBeI32(buf, pos) ==
  IF pos + 4 > Len(buf) THEN Err("EndOfFile", Len(buf))
  ELSE Ok(FromBE32(SubSeq(buf, pos + 1, pos + 4)), pos + 4)

(* A negative length, cast to uint, asks read_bytes for more than 2^63     *)
(* bytes: the request cannot be met ("LengthOverflow").                    *)
ReadOscBlob(buf, pos) ==
  LET l == ReadBeI32(buf, pos)
  IN  IF l.kind # "ok" THEN l
      ELSE IF l.val < 0 THEN Err("LengthOverflow", l.pos)
      ELSE IF l.pos + l.val > Len(buf) THEN Err("EndOfFile", Len(buf))
      ELSE Ok(OscBlob(SubSeq(buf, l.pos + 1, l.pos + l.val)), l.pos + l.val)

ReadOscInt(buf, pos) ==
  LET r == ReadBeI32(buf, pos)
  IN  IF r.kind = "ok" THEN Ok(OscInt(r.val), r.pos) ELSE r

ReadOscFloat(buf, pos) ==
  LET r == ReadBeI32(buf, pos)
  IN  IF r.kind = "ok" THEN Ok(OscFloat(r.val), r.pos) ELSE r

OscReaderRead(buf, pos, typetag) ==
  CASE typetag = TagS -> ReadOscString(buf, pos)
    [] typetag = TagI -> ReadOscInt(buf, pos)
    [] typetag = TagF -> ReadOscFloat(buf, pos)
    [] typetag = TagB -> ReadOscBlob(buf, pos)
    [] OTHER -> Err("InvalidInput", pos)

(***************************************************************************)
(* OscMessage::from_reader.                                                *)
(***************************************************************************)
(* The loop over typetags.slice_from(1).bytes(): tags[i..] are still to    *)
(* be read, arguments holds what was pushed.                               *)
RECURSIVE ReadArguments(_, _, _, _, _)
ReadArguments(buf, pos, tags, i, arguments) ==
  IF i > Len(tags) THEN Ok(arguments, pos)
  ELSE LET r == OscReaderRead(buf, pos, tags[i])
       IN  IF r.kind = "ok"
           THEN ReadArguments(buf, r.pos, tags, i + 1, Append(arguments, r.val))
           ELSE Fail(r.err, r.pos)

(* str::slice_from(1) fails unless byte index 1 is a character boundary.   *)
IsCharBoundary(s, i) == i = Len(s) \/ (i < Len(s) /\ ~IsCont(s[i + 1]))

(* Variant: the leading character of the typetag string read as a tag. *)
FromReaderFromZero(buf, pos) ==
  LET a == OscReaderRead(buf, pos, TagS)
  IN  IF a.kind # "ok" THEN a
      ELSE LET t == OscReaderRead(buf, a.pos, TagS)
           IN  IF t.kind # "ok" THEN t
               ELSE LET r == ReadArguments(buf, t.pos, t.val.val, 1, <<>>)
                    IN  IF r.kind # "ok" THEN r
                        ELSE Ok(OscMessage(a.val.val, r.val), r.pos)
FromReader(buf, pos) ==
  LET a == OscReaderRead(buf, pos, TagS)
  IN  IF a.kind # "ok" THEN a
      ELSE LET t == OscReaderRead(buf, a.pos, TagS)
           IN  IF t.kind # "ok" THEN t
               ELSE LET address == a.val.val
                        typetags == t.val.val
                    IN  IF Len(typetags) = 0 THEN Fail("CapacityOverflow", t.pos)
                        ELSE IF ~IsCharBoundary(typetags, 1) THEN Fail("CharBoundary", t.pos)
                        ELSE LET r == ReadArguments(buf, t.pos, typetags, 2, <<>>)
                             IN  IF r.kind # "ok" THEN r
                                 ELSE Ok(OscMessage(address, r.val), r.pos)

(***************************************************************************)
(* The inputs.  A text is a run of 'a', or one of two texts that hold a    *)
(* NUL ("\0" and "a\0a"); all are UTF-8.  The ints are 0x00112233, -1 and  *)
(* the least i32; the floats are 1.234 and -1.0.                           *)
(***************************************************************************)
Strs == SeqsUpTo({97}, MaxStrLen) \cup {<<0>>, <<97, 0, 97>>}
Blobs == SeqsUpTo({1, 255}, MaxBlobLen)
Ints == {1122867, -1, I32Min}
Floats == {1067316150, -1082130432}

Values ==
  {OscString(s) : s \in Strs} \cup {OscInt(i) : i \in Ints}
    \cup {OscFloat(f) : f \in Floats} \cup {OscBlob(b) : b \in Blobs}

(* Messages: "/" and "/é/a" (six bytes) as addresses; "aaa", "a\0a", an    *)
(* int, the float 1.234 and a one-byte blob as arguments.                  *)
Addresses == {<<47>>, <<47, 195, 169, 47, 97>>}
ArgValues ==
  {OscString(<<97, 97, 97>>), OscString(<<97, 0, 97>>),
   OscInt(1122867), OscFloat(1067316150), OscBlob(<<1>>)}
Messages == {OscMessage(a, args) : a \in Addresses, args \in SeqsUpTo(ArgValues, MaxArgs)}

(* What a transport may put in place of a byte, and the tags a caller      *)
(* may hand to OscReader::read ('x' is no tag).                            *)
CorruptBytes == {0, 97, 255}
ReadTags == {TagS, TagI, TagF, TagB, 120}

(***************************************************************************)
(* The state: the sink of the writer and the calls of OscWriter::write     *)
(* made on it (log: value and offset), the message given to write_to       *)
(* (sent), the source of the reader and its position, how the source was   *)
(* derived from the sink (input), and the last call on the reader (rop,    *)
(* rtag, rstart) with its result (res).                                    *)
(***************************************************************************)
VARIABLES sink, log, sent, source, pos, input, rop, rtag, rstart, res

vars == <<sink, log, sent, source, pos, input, rop, rtag, rstart, res>>
writerVars == <<sink, log, sent>>
readerVars == <<source, pos, input, rop, rtag, rstart, res>>

Init ==
  /\ sink = <<>>
  /\ log = <<>>
  /\ sent = <<>>
  /\ source = <<>>
  /\ pos = 0
  /\ input = "none"
  /\ rop = "none"
  /\ rtag = 0
  /\ rstart = 0
  /\ res = [kind |-> "none"]

(* A run of OscWriter::write calls on the sink w = [sink, log].            *)
RECURSIVE WriteAll(_, _)
WriteAll(calls, w) ==
  IF calls = <<>> THEN w
  ELSE WriteAll(Tail(calls),
                [sink |-> w.sink \o OscWriterWrite(Head(calls)),
                 log |-> Append(w.log, [val |-> Head(calls), at |-> Len(w.sink)])])

(* OscWriter::write(v) *)
OscWrite(v) ==
  /\ input = "none"
  /\ sent = <<>>
  /\ Len(log) < MaxWrites
  /\ LET w == WriteAll(<<v>>, [sink |-> sink, log |-> log])
     IN  sink' = w.sink /\ log' = w.log
  /\ UNCHANGED <<sent, readerVars>>

(* OscMessage::write_to(m) on a new MemWriter *)
WriteTo(m) ==
  /\ input = "none"
  /\ sent = <<>>
  /\ log = <<>>
  /\ LET w == WriteAll(WriteToCalls(m), [sink |-> sink, log |-> log])
     IN  sink' = w.sink /\ log' = w.log
  /\ sent' = <<m>>
  /\ UNCHANGED readerVars

(* MemReader::new(data): the bytes of the sink as they were written, cut   *)
(* short, with one byte changed, or followed by one more byte.             *)
StartReader(data, how) ==
  /\ input = "none"
  /\ source' = data
  /\ input' = how
  /\ pos' = 0
  /\ UNCHANGED <<writerVars, rop, rtag, rstart, res>>

NewReader == StartReader(sink, "exact")

NewReaderTruncated == \E n \in 0..(Len(sink) - 1) : StartReader(SubSeq(sink, 1, n), "truncated")

NewReaderCorrupted ==
  \E i \in 1..Len(sink), b \in CorruptBytes :
    /\ b # sink[i]
    /\ StartReader([sink EXCEPT ![i] = b], "corrupted")

NewReaderExtended == \E b \in CorruptBytes : StartReader(Append(sink, b), "extended")

(* The reader is used again only after a call that returned Ok. *)
CanRead == input # "none" /\ res.kind \in {"none", "ok"}

(* read_bytes of more than 2^63 bytes either returns an error or ends the  *)
(* process in the allocation.                                              *)
ReadOutcomes(r) ==
  IF r.kind = "err" /\ r.err = "LengthOverflow"
  THEN {r, [kind |-> "abort", err |-> r.err, pos |-> r.pos]}
  ELSE {r}

(* OscReader::read(typetag).  A caller reads field after field only from   *)
(* data as it was written; from other data it makes one call.              *)
OscRead(typetag) ==
  /\ CanRead
  /\ rop = "none" \/ input = "exact"
  /\ \E r \in ReadOutcomes(OscReaderRead(source, pos, typetag)) :
       /\ res' = r
       /\ pos' = r.pos
  /\ rop' = "read"
  /\ rtag' = typetag
  /\ rstart' = pos
  /\ UNCHANGED <<writerVars, source, input>>

(* OscMessage::from_reader *)
DoFromReader ==
  /\ CanRead
  /\ LET r == FromReader(source, pos)
     IN  res' = r /\ pos' = r.pos
  /\ rop' = "from_reader"
  /\ rtag' = 0
  /\ rstart' = pos
  /\ UNCHANGED <<writerVars, source, input>>

(* One value or one message is written, then read back. *)
Next ==
  \/ \E v \in Values : log = <<>> /\ OscWrite(v)
  \/ \E m \in Messages : WriteTo(m)
  \/ NewReader
  \/ NewReaderTruncated
  \/ NewReaderCorrupted
  \/ NewReaderExtended
  \/ \E t \in ReadTags : OscRead(t)
  \/ DoFromReader

Spec == Init /\ [][Next]_vars

(* The writer alone: any run of up to MaxWrites writes, or one message. *)
WriterNext ==
  \/ \E v \in Values : OscWrite(v)
  \/ \E m \in Messages : WriteTo(m)

WriterSpec == Init /\ [][WriterNext]_vars

(***************************************************************************)
(* Properties.                                                             *)
(***************************************************************************)
(* The bytes the i-th call of OscWriter::write appended to the sink. *)
EntryBytes(i) ==
  SubSeq(sink, log[i].at + 1, IF i < Len(log) THEN log[i + 1].at ELSE Len(sink))

(* The sequences of ss, one after the other. *)
RECURSIVE Concat(_)
Concat(ss) == IF ss = <<>> THEN <<>> ELSE Head(ss) \o Concat(Tail(ss))

HasNul(s) == \E i \in 1..Len(s) : s[i] = 0

(* The smallest multiple of 4 strictly greater than L: 4*ceil((L+1)/4). *)
Ceil4(L) == 4 * ((L + 1 + 3) \div 4)

TagOfKind == [OscString |-> 115, OscInt |-> 105, OscFloat |-> 102, OscBlob |-> 98]
KindOfTag(t) ==
  CASE t = 115 -> "OscString" [] t = 105 -> "OscInt" [] t = 102 -> "OscFloat" [] t = 98 -> "OscBlob"

(* C2: a written string of L bytes occupies 4*ceil((L+1)/4) bytes of the   *)
(* sink: its L bytes, then only NUL bytes, the last byte being NUL.        *)
C2_PaddingLaw ==
  \A i \in 1..Len(log) :
    log[i].val.kind = "OscString" =>
      LET s == log[i].val.val
          L == Len(s)
          out == EntryBytes(i)
      IN  /\ Len(out) = Ceil4(L)
          /\ Len(out) % 4 = 0 /\ Len(out) > L /\ Len(out) - 4 <= L
          /\ SubSeq(out, 1, L) = s
          /\ \A j \in (L + 1)..Len(out) : out[j] = 0
          /\ out[Len(out)] = 0

(* A string of 3 bytes written in 4 bytes and one of 4 bytes written in 8. *)
C2_Witness ==
  /\ Len(log) = 2
  /\ log[1].val = OscString(<<97, 97, 97>>) /\ Len(EntryBytes(1)) = 4
  /\ log[2].val = OscString(<<97, 97, 97, 97>>) /\ Len(EntryBytes(2)) = 8

(* C3: write_to writes the address as a string, then the typetag string    *)
(* (',' and one tag per argument, in order) as a string, then every        *)
(* argument in order, and nothing else.                                    *)
C3_MessageLayout ==
  sent # <<>> =>
    LET m == sent[1]
        k == Len(m.arguments)
        tt == log[2].val.val
    IN  /\ Len(log) = k + 2
        /\ log[1].val = OscString(m.address)
        /\ log[2].val.kind = "OscString"
        /\ Len(tt) = k + 1
        /\ tt[1] = 44
        /\ \A i \in 1..k : tt[i + 1] = TagOfKind[m.arguments[i].kind]
        /\ \A i \in 1..k : log[i + 2].val = m.arguments[i]
        /\ sink = WriteOscString(m.address) \o WriteOscString(tt)
                    \o Concat([i \in 1..k |-> OscWriterWrite(m.arguments[i])])

(* A message of an int and a blob was written. *)
C3_Witness ==
  /\ sent # <<>>
  /\ Len(sent[1].arguments) = 2
  /\ sent[1].arguments[1].kind = "OscInt"
  /\ sent[1].arguments[2].kind = "OscBlob"
  /\ Len(log) = 4

(* C10: as long as no blob was written, the sink holds a multiple of 4     *)
(* bytes and every write began at a multiple of 4; so do the fields of a   *)
(* message without blob arguments.                                         *)
C10_Alignment ==
  (\A i \in 1..Len(log) : log[i].val.kind # "OscBlob") =>
    /\ Len(sink) % 4 = 0
    /\ \A i \in 1..Len(log) : log[i].at % 4 = 0

(* A message of a string and a float: four fields, none a blob. *)
C10_Witness ==
  /\ sent # <<>>
  /\ Len(log) = 4
  /\ \A i \in 1..Len(log) : log[i].val.kind # "OscBlob"
  /\ log[4].at > 0

(* The reads from_reader is to make on a source that holds an address, a  *)
(* typetag string tt and one argument per tag: the result of the read of   *)
(* tt[i] at p, followed by those of the tags after it.                     *)
RECURSIVE FieldReads(_, _, _, _)
FieldReads(buf, p, tt, i) ==
  IF i > Len(tt) THEN <<>>
  ELSE LET r == OscReaderRead(buf, p, tt[i])
       IN  IF r.kind = "ok" THEN <<r>> \o FieldReads(buf, r.pos, tt, i + 1) ELSE <<r>>

(* The address and the typetag string at the start of the last call. *)
AddressRead == OscReaderRead(source, rstart, TagS)
TypetagsRead == OscReaderRead(source, AddressRead.pos, TagS)
HeaderRead == AddressRead.kind = "ok" /\ TypetagsRead.kind = "ok"

(* C1, as stated: from_reader on the bytes write_to produced for m         *)
(* returns m.                                                              *)
C1_RoundTripAnyText ==
  (sent # <<>> /\ input = "exact" /\ rop = "from_reader" /\ rstart = 0) =>
    res.kind = "ok" /\ res.val = sent[1]

(* C1, amended: from_reader on the bytes write_to produced for m returns   *)
(* m when neither the address nor a string argument of m holds a NUL byte. *)
C1_RoundTrip ==
  (/\ sent # <<>> /\ input = "exact" /\ rop = "from_reader" /\ rstart = 0
   /\ ~HasNul(sent[1].address)
   /\ \A i \in 1..Len(sent[1].arguments) :
        sent[1].arguments[i].kind = "OscString" => ~HasNul(sent[1].arguments[i].val)) =>
    res.kind = "ok" /\ res.val = sent[1]

(* A message of a blob and a string came back as it was sent. *)
C1_Witness ==
  /\ sent # <<>> /\ input = "exact" /\ rop = "from_reader" /\ rstart = 0
  /\ sent[1].arguments = <<OscBlob(<<1>>), OscString(<<97, 97, 97>>)>>
  /\ res.kind = "ok" /\ res.val = sent[1]

(* C4: from_reader on a message whose typetag string holds, after the      *)
(* leading ',', a character that is no tag returns an error to its caller. *)
C4_UnknownTagReturnsError ==
  (/\ rop = "from_reader"
   /\ HeaderRead
   /\ LET tt == TypetagsRead.val.val
      IN  /\ Len(tt) >= 2
          /\ tt[1] = 44
          /\ \E i \in 2..Len(tt) : tt[i] \notin {115, 105, 102, 98}) =>
    res.kind = "err"

(* C5: from_reader on a message whose typetag string is empty or does not  *)
(* begin with ',' returns an error to its caller.                          *)
C5_MalformedPrefixReturnsError ==
  (/\ rop = "from_reader"
   /\ HeaderRead
   /\ LET tt == TypetagsRead.val.val
      IN  tt = <<>> \/ tt[1] # 44) =>
    res.kind = "err"

(* C6: when a read of from_reader fails because the source is exhausted,   *)
(* from_reader returns that error to its caller.                           *)
C6_ExhaustedReturnsError ==
  (/\ rop = "from_reader"
   /\ res.kind \in {"err", "panic"}
   /\ res.err = "EndOfFile") =>
    res.kind = "err"

(* C7: a written blob b occupies 4 + len(b) bytes of the sink, its length  *)
(* in four big-endian bytes and then b; and a blob read from bytes that    *)
(* write_osc_blob produced for b returns b, 4 + len(b) bytes further on.   *)
C7_BlobLaw ==
  /\ \A i \in 1..Len(log) :
       log[i].val.kind = "OscBlob" =>
         LET b == log[i].val.val
         IN  /\ Len(EntryBytes(i)) = 4 + Len(b)
             /\ EntryBytes(i) = <<0, 0, 0, Len(b)>> \o b
  /\ (rop = "read" /\ rtag = TagB /\ rstart + 4 <= Len(source)) =>
       LET n == source[rstart + 4]
           b == SubSeq(source, rstart + 5, rstart + 4 + n)
       IN  (/\ rstart + 4 + n <= Len(source)
            /\ SubSeq(source, rstart + 1, rstart + 4 + n) = WriteOscBlob(b)) =>
             res = Ok(OscBlob(b), rstart + 4 + n)

(* A blob of two bytes was read back from the bytes written for it, one    *)
(* more byte following them in the source.                                 *)
C7_Witness ==
  /\ Len(log) = 1 /\ log[1].val = OscBlob(<<1, 255>>)
  /\ input = "extended"
  /\ rop = "read" /\ rtag = TagB /\ rstart = 0
  /\ res = Ok(OscBlob(<<1, 255>>), 6)
  /\ Len(source) = 7

(* C8: on a source that holds an address, a typetag string of ',' and k    *)
(* tags, and the k arguments the tags name, from_reader returns a message  *)
(* of exactly these k arguments, each of the variant of its tag and read   *)
(* where the one before it ended, and stops where the last one ended.      *)
C8_DecodeWellFormed ==
  (/\ rop = "from_reader"
   /\ HeaderRead
   /\ LET tt == TypetagsRead.val.val
      IN  /\ Len(tt) >= 1
          /\ tt[1] = 44
          /\ \A i \in 2..Len(tt) : tt[i] \in {115, 105, 102, 98}
          /\ LET rs == FieldReads(source, TypetagsRead.pos, tt, 2)
             IN  Len(rs) = Len(tt) - 1 /\ \A i \in 1..Len(rs) : rs[i].kind = "ok") =>
    LET tt == TypetagsRead.val.val
        k == Len(tt) - 1
        rs == FieldReads(source, TypetagsRead.pos, tt, 2)
    IN  /\ res.kind = "ok"
        /\ res.val.address = AddressRead.val.val
        /\ Len(res.val.arguments) = k
        /\ \A i \in 1..k :
             /\ res.val.arguments[i] = rs[i].val
             /\ res.val.arguments[i].kind = KindOfTag(tt[i + 1])
        /\ res.pos = (IF k = 0 THEN TypetagsRead.pos ELSE rs[k].pos)
        /\ pos = res.pos

(* A message of two arguments was decoded from a source that holds one     *)
(* more byte after it, and that byte was not consumed.                     *)
C8_Witness ==
  /\ rop = "from_reader" /\ input = "extended"
  /\ res.kind = "ok"
  /\ Len(res.val.arguments) = 2
  /\ res.val.arguments[1].kind = "OscBlob"
  /\ res.val.arguments[2].kind = "OscString"
  /\ pos = Len(source) - 1

(* The first NUL of the source at or after the start of the last call. *)
FirstNulOfCall ==
  CHOOSE j \in (rstart + 1)..Len(source) :
    source[j] = 0 /\ \A h \in (rstart + 1)..(j - 1) : source[h] # 0

(* C9, as stated: a string read from a source whose first NUL is r bytes   *)
(* on returns these r bytes and advances the source by 4*ceil((r+1)/4)     *)
(* bytes.                                                                  *)
C9_StringReadAnySource ==
  (rop = "read" /\ rtag = TagS /\ \E j \in (rstart + 1)..Len(source) : source[j] = 0) =>
    LET r == FirstNulOfCall - rstart - 1
        text == SubSeq(source, rstart + 1, FirstNulOfCall - 1)
    IN  res = Ok(OscString(text), rstart + Ceil4(r)) /\ pos = rstart + Ceil4(r)

(* C9, amended: a string read from a source whose first NUL is r bytes on  *)
(* returns these r bytes and advances the source by 4*ceil((r+1)/4)        *)
(* bytes, whatever the bytes after the NUL are, when the source holds that *)
(* many bytes and the r bytes are UTF-8.  When the source ends before, the *)
(* read returns the error of the source; when the r bytes are not UTF-8,   *)
(* it returns InvalidInput.                                                *)
C9_StringRead ==
  (rop = "read" /\ rtag = TagS /\ \E j \in (rstart + 1)..Len(source) : source[j] = 0) =>
    LET r == FirstNulOfCall - rstart - 1
        text == SubSeq(source, rstart + 1, FirstNulOfCall - 1)
        complete == rstart + Ceil4(r) <= Len(source)
    IN  /\ (complete /\ IsUtf8(text)) =>
             res = Ok(OscString(text), rstart + Ceil4(r)) /\ pos = rstart + Ceil4(r)
        /\ ~complete => res.kind = "err" /\ res.err = "EndOfFile"
        /\ (complete /\ ~IsUtf8(text)) => res.kind = "err" /\ res.err = "InvalidInput"

(* A string was read whose padding holds a byte that is not NUL. *)
C9_Witness ==
  /\ rop = "read" /\ rtag = TagS /\ res.kind = "ok"
  /\ Len(res.val.val) = 1
  /\ pos = rstart + 4
  /\ \E j \in (rstart + 3)..pos : source[j] # 0

====
